---- MODULE Spec2Model ----
(***************************************************************************)
(* Vehicle traffic monitoring: the centroid tracker (CentroidTracker) and  *)
(* the line-crossing counter of the main loop of main.py.                  *)
(*                                                                         *)
(* An OrderedDict is modelled as a sequence of <<key, value>> pairs in     *)
(* insertion order.  math.hypot is modelled by the squared distance of the *)
(* integer centroids: for non-negative maxDistance, hypot(dx, dy) > d is   *)
(* dx*dx + dy*dy > d*d, and sorting by hypot is sorting by the square.     *)
(***************************************************************************)
EXTENDS Integers, Sequences, FiniteSets, TLC

VARIABLES tracker, total_count, rects, pc, frames, used, countLog, trail, missed,
          everCounted

vars == <<tracker, total_count, rects, pc, frames, used, countLog, trail, missed,
          everCounted>>

(* ---------------------------- bounds ----------------------------------- *)
\* size of the (scaled-down) frame the detections lie in
FRAME_WIDTH == 1
FRAME_HEIGHT == 3
\* most detections the detector reports for one frame
MaxDet == 2
\* number of frames of the video
MaxFrames == 4
\* largest configured values of the tracker's options
MaxMaxDisappeared == 1
MaxMaxDistance == 1
MaxHistoryLen == 2

\* the reference line, main.py:128
line_y == FRAME_HEIGHT \div 2

\* widths and heights of the boxes the detector reports
BoxWidths == {1}
BoxHeights == {1}

\* the boxes (startX, startY, endX, endY) that lie inside the frame, main.py:158-162
Boxes ==
  {b \in {<<x, y, x + w, y + h>> : x \in 0..FRAME_WIDTH, y \in 0..FRAME_HEIGHT,
                                    w \in BoxWidths, h \in BoxHeights} :
     b[3] <= FRAME_WIDTH /\ b[4] <= FRAME_HEIGHT}

\* the detection lists of one frame: sequences of 0..MaxDet boxes
RectLists == UNION {[1..n -> Boxes] : n \in 0..MaxDet}

(* ------------------------- ordered dictionaries ------------------------ *)
Keys(d) == [i \in 1..Len(d) |-> d[i][1]]

KeySet(d) == {d[i][1] : i \in 1..Len(d)}

Values(d) == [i \in 1..Len(d) |-> d[i][2]]

Get(d, k) == d[CHOOSE i \in 1..Len(d) : d[i][1] = k][2]

\* d[k] = v: an existing key keeps its place, a new key goes last
Put(d, k, v) ==
  IF k \in KeySet(d)
  THEN [i \in 1..Len(d) |-> IF d[i][1] = k THEN <<k, v>> ELSE d[i]]
  ELSE Append(d, <<k, v>>)

\* del d[k]
Del(d, k) == SelectSeq(d, LAMBDA e : e[1] # k)

(* ------------------------------ tracker -------------------------------- *)
\* CentroidTracker.__init__
NewTracker(maxDisappeared, maxDistance, history_len) ==
  [nextObjectID |-> 0,
   objects |-> <<>>,
   boxes |-> <<>>,
   disappeared |-> <<>>,
   counted |-> <<>>,
   centroid_history |-> <<>>,
   maxDisappeared |-> maxDisappeared,
   maxDistance |-> maxDistance,
   history_len |-> history_len]

\* register that forgets to advance nextObjectID
register_noIncrement(t, centroid, bbox) ==
  [t EXCEPT !.objects = Put(t.objects, t.nextObjectID, centroid),
            !.boxes = Put(t.boxes, t.nextObjectID, bbox),
            !.disappeared = Put(t.disappeared, t.nextObjectID, 0),
            !.counted = Put(t.counted, t.nextObjectID, FALSE),
            !.centroid_history = Put(t.centroid_history, t.nextObjectID, <<centroid>>)]

\* CentroidTracker.register
register(t, centroid, bbox) ==
  [t EXCEPT !.objects = Put(t.objects, t.nextObjectID, centroid),
            !.boxes = Put(t.boxes, t.nextObjectID, bbox),
            !.disappeared = Put(t.disappeared, t.nextObjectID, 0),
            !.counted = Put(t.counted, t.nextObjectID, FALSE),
            !.centroid_history = Put(t.centroid_history, t.nextObjectID, <<centroid>>),
            !.nextObjectID = t.nextObjectID + 1]

\* deregister that leaves the counted flag behind
deregister_keepsCounted(t, objectID) ==
  [t EXCEPT !.objects = Del(t.objects, objectID),
            !.boxes = Del(t.boxes, objectID),
            !.disappeared = Del(t.disappeared, objectID),
            !.centroid_history = Del(t.centroid_history, objectID)]

\* CentroidTracker.deregister
deregister(t, objectID) ==
  [t EXCEPT !.objects = Del(t.objects, objectID),
            !.boxes = Del(t.boxes, objectID),
            !.disappeared = Del(t.disappeared, objectID),
            !.counted = Del(t.counted, objectID),
            !.centroid_history = Del(t.centroid_history, objectID)]

\* int(n / 2.0): the quotient truncated toward zero
TruncHalf(n) == IF n >= 0 THEN n \div 2 ELSE -((-n) \div 2)

\* the centroid of a box, update lines 45-48
Centroid(rect) == <<TruncHalf(rect[1] + rect[3]), TruncHalf(rect[2] + rect[4])>>

inputCentroidsOf(rs) == [i \in 1..Len(rs) |-> Centroid(rs[i])]

\* the square of math.hypot(oc[0] - ic[0], oc[1] - ic[1])
DistSq(oc, ic) ==
  (oc[1] - ic[1]) * (oc[1] - ic[1]) + (oc[2] - ic[2]) * (oc[2] - ic[2])

\* a gate that also rejects a distance of exactly maxDistance (>= for >)
TooFar_orEqual(distSq, maxDistance) == distSq >= maxDistance * maxDistance

\* a gate that lets every distance through
TooFar_never(distSq, maxDistance) == FALSE

\* dist > self.maxDistance, on the squared distance
TooFar(distSq, maxDistance) == distSq > maxDistance * maxDistance

\* age that deregisters at maxDisappeared already (>= for >)
age_atThreshold(t, objectID) ==
  LET n == Get(t.disappeared, objectID) + 1
      t1 == [t EXCEPT !.disappeared = Put(t.disappeared, objectID, n)]
  IN IF n >= t.maxDisappeared THEN deregister(t1, objectID) ELSE t1

\* self.disappeared[objectID] += 1, then deregister above maxDisappeared
age(t, objectID) ==
  LET n == Get(t.disappeared, objectID) + 1
      t1 == [t EXCEPT !.disappeared = Put(t.disappeared, objectID, n)]
  IN IF n > t.maxDisappeared THEN deregister(t1, objectID) ELSE t1

\* a loop that ages the first object only
ageAll_firstOnly(t, ids) ==
  IF ids = <<>> THEN t ELSE age(t, Head(ids))

\* the loop over list(self.disappeared.keys()) of an update without detections
RECURSIVE ageAll(_, _)
ageAll(t, ids) ==
  IF ids = <<>> THEN t ELSE ageAll(age(t, Head(ids)), Tail(ids))

\* a loop that registers the inputs last to first
RECURSIVE registerAll_reversed(_, _, _)
registerAll_reversed(t, inputCentroids, rs) ==
  IF rs = <<>> THEN t
  ELSE register(registerAll_reversed(t, Tail(inputCentroids), Tail(rs)),
                Head(inputCentroids), Head(rs))

\* the loop registering every input of an update without live objects
RECURSIVE registerAll(_, _, _)
registerAll(t, inputCentroids, rs) ==
  IF rs = <<>> THEN t
  ELSE registerAll(register(t, Head(inputCentroids), Head(rs)),
                   Tail(inputCentroids), Tail(rs))

\* entries before sorting: (dist, row, col) in row-major order; rows and
\* columns are numbered from 1
Entries(objectCentroids, inputCentroids) ==
  LET n == Len(objectCentroids)
      m == Len(inputCentroids)
  IN [k \in 1..(n * m) |->
        LET i == ((k - 1) \div m) + 1
            j == ((k - 1) % m) + 1
        IN <<DistSq(objectCentroids[i], inputCentroids[j]), i, j>>]

\* an unstable sort step: e goes before the entries of equal key
RECURSIVE InsertSorted_beforeEqual(_, _)
InsertSorted_beforeEqual(sorted, e) ==
  IF sorted = <<>> THEN <<e>>
  ELSE IF Head(sorted)[1] < e[1]
       THEN <<Head(sorted)>> \o InsertSorted_beforeEqual(Tail(sorted), e)
       ELSE <<e>> \o sorted

\* one step of the stable sort: e goes after every entry whose key is not larger
RECURSIVE InsertSorted(_, _)
InsertSorted(sorted, e) ==
  IF sorted = <<>> THEN <<e>>
  ELSE IF Head(sorted)[1] <= e[1]
       THEN <<Head(sorted)>> \o InsertSorted(Tail(sorted), e)
       ELSE <<e>> \o sorted

\* entries.sort(key=lambda x: x[0]): stable, ascending by distance
RECURSIVE SortEntries(_)
SortEntries(entries) ==
  IF entries = <<>> THEN <<>>
  ELSE InsertSorted(SortEntries(SubSeq(entries, 1, Len(entries) - 1)),
                    entries[Len(entries)])

\* a history that is never trimmed
appendHistory_noPop(hist, c, history_len) == Append(hist, c)

\* a history trimmed with pop() for pop(0): the newest entry goes
appendHistory_popNewest(hist, c, history_len) ==
  LET h == Append(hist, c)
  IN IF Len(h) > history_len THEN SubSeq(h, 1, Len(h) - 1) ELSE h

\* self.centroid_history[objectID].append(c), then pop(0) above history_len
appendHistory(hist, c, history_len) ==
  LET h == Append(hist, c)
  IN IF Len(h) > history_len THEN Tail(h) ELSE h

\* a loop body that forgets to reset the disappeared count
commit_noReset(s, row, col, objectIDs, inputCentroids, rs) ==
  LET objectID == objectIDs[row]
      t == s.t
  IN [t |-> [t EXCEPT
               !.objects = Put(t.objects, objectID, inputCentroids[col]),
               !.boxes = Put(t.boxes, objectID, rs[col]),
               !.centroid_history =
                  Put(t.centroid_history, objectID,
                      appendHistory(Get(t.centroid_history, objectID),
                                    inputCentroids[col], t.history_len))],
      usedRows |-> s.usedRows \cup {row},
      usedCols |-> s.usedCols \cup {col},
      matches |-> Append(s.matches, <<objectID, col>>)]

\* a loop body that forgets to append to the history
commit_noHistory(s, row, col, objectIDs, inputCentroids, rs) ==
  LET objectID == objectIDs[row]
      t == s.t
  IN [t |-> [t EXCEPT
               !.objects = Put(t.objects, objectID, inputCentroids[col]),
               !.boxes = Put(t.boxes, objectID, rs[col]),
               !.disappeared = Put(t.disappeared, objectID, 0)],
      usedRows |-> s.usedRows \cup {row},
      usedCols |-> s.usedCols \cup {col},
      matches |-> Append(s.matches, <<objectID, col>>)]

\* the body of the greedy loop for one committed entry, update lines 83-94
commit(s, row, col, objectIDs, inputCentroids, rs) ==
  LET objectID == objectIDs[row]
      t == s.t
  IN [t |-> [t EXCEPT
               !.objects = Put(t.objects, objectID, inputCentroids[col]),
               !.boxes = Put(t.boxes, objectID, rs[col]),
               !.disappeared = Put(t.disappeared, objectID, 0),
               !.centroid_history =
                  Put(t.centroid_history, objectID,
                      appendHistory(Get(t.centroid_history, objectID),
                                    inputCentroids[col], t.history_len))],
      usedRows |-> s.usedRows \cup {row},
      usedCols |-> s.usedCols \cup {col},
      matches |-> Append(s.matches, <<objectID, col>>)]

\* a loop that does not look at usedRows
skipped_noRowCheck(s, dist, row, col) ==
  \/ col \in s.usedCols
  \/ TooFar(dist, s.t.maxDistance)

\* whether the greedy loop skips an entry, update lines 79-82
skipped(s, dist, row, col) ==
  \/ row \in s.usedRows
  \/ col \in s.usedCols
  \/ TooFar(dist, s.t.maxDistance)

\* greedy match by increasing distance, update lines 78-94
RECURSIVE greedy(_, _, _, _, _)
greedy(s, entries, objectIDs, inputCentroids, rs) ==
  IF entries = <<>> THEN s
  ELSE LET e == Head(entries)
       IN greedy(IF skipped(s, e[1], e[2], e[3]) THEN s
                 ELSE commit(s, e[2], e[3], objectIDs, inputCentroids, rs),
                 Tail(entries), objectIDs, inputCentroids, rs)

\* a loop that increments the unmatched objects' counts and never deregisters
RECURSIVE ageUnmatched_noDeregister(_, _, _, _)
ageUnmatched_noDeregister(t, row, objectIDs, usedRows) ==
  IF row > Len(objectIDs) THEN t
  ELSE ageUnmatched_noDeregister(
         IF row \notin usedRows
         THEN [t EXCEPT !.disappeared =
                 Put(t.disappeared, objectIDs[row],
                     Get(t.disappeared, objectIDs[row]) + 1)]
         ELSE t,
         row + 1, objectIDs, usedRows)

\* any unmatched existing object -> increment disappeared, update lines 97-102
RECURSIVE ageUnmatched(_, _, _, _)
ageUnmatched(t, row, objectIDs, usedRows) ==
  IF row > Len(objectIDs) THEN t
  ELSE ageUnmatched(IF row \notin usedRows THEN age(t, objectIDs[row]) ELSE t,
                    row + 1, objectIDs, usedRows)

\* a loop that registers every input centroid, matched or not
RECURSIVE registerUnmatched_all(_, _, _, _, _)
registerUnmatched_all(t, col, inputCentroids, rs, usedCols) ==
  IF col > Len(inputCentroids) THEN t
  ELSE registerUnmatched_all(register(t, inputCentroids[col], rs[col]),
                             col + 1, inputCentroids, rs, usedCols)

\* any unmatched input centroid -> register as new object, update lines 105-107
RECURSIVE registerUnmatched(_, _, _, _, _)
registerUnmatched(t, col, inputCentroids, rs, usedCols) ==
  IF col > Len(inputCentroids) THEN t
  ELSE registerUnmatched(IF col \notin usedCols
                         THEN register(t, inputCentroids[col], rs[col]) ELSE t,
                         col + 1, inputCentroids, rs, usedCols)

NoMatch == [usedRows |-> {}, usedCols |-> {}, matches |-> <<>>]

\* CentroidTracker.update: the tracker after the call, with the rows and columns
\* the greedy loop used and the (objectID, col) pairs it committed, in order
update(t, rs) ==
  IF Len(rs) = 0
  THEN [t |-> ageAll(t, Keys(t.disappeared))] @@ NoMatch
  ELSE LET inputCentroids == inputCentroidsOf(rs)
       IN IF Len(t.objects) = 0
          THEN [t |-> registerAll(t, inputCentroids, rs)] @@ NoMatch
          ELSE LET objectIDs == Keys(t.objects)
                   objectCentroids == Values(t.objects)
                   entries == SortEntries(Entries(objectCentroids, inputCentroids))
                   s == greedy([t |-> t] @@ NoMatch, entries, objectIDs,
                               inputCentroids, rs)
                   t1 == ageUnmatched(s.t, 1, objectIDs, s.usedRows)
                   t2 == registerUnmatched(t1, 1, inputCentroids, rs, s.usedCols)
               IN [s EXCEPT !.t = t2]

(* --------------------------- crossing counter -------------------------- *)
\* a crossing that needs the last sample strictly below the line
crossed_strict(hist) ==
  /\ Len(hist) >= 2
  /\ hist[Len(hist) - 1][2] < line_y
  /\ hist[Len(hist)][2] > line_y

\* prev_y < line_y and curr_y >= line_y on the last two samples, main lines 182-186
crossed(hist) ==
  /\ Len(hist) >= 2
  /\ hist[Len(hist) - 1][2] < line_y
  /\ hist[Len(hist)][2] >= line_y

\* counting logic that does not look at the counted flag
countOne_noFlagCheck(c, objectID) ==
  IF crossed(Get(c.t.centroid_history, objectID))
  THEN [t |-> [c.t EXCEPT !.counted = Put(c.t.counted, objectID, TRUE)],
        total_count |-> c.total_count + 1,
        countLog |-> Append(c.countLog, objectID)]
  ELSE c

\* counting logic that empties the history of the object it counts
countOne_trimsHistory(c, objectID) ==
  IF /\ ~Get(c.t.counted, objectID)
     /\ crossed(Get(c.t.centroid_history, objectID))
  THEN [t |-> [c.t EXCEPT
                 !.counted = Put(c.t.counted, objectID, TRUE),
                 !.centroid_history =
                    Put(c.t.centroid_history, objectID,
                        <<Get(c.t.objects, objectID)>>)],
        total_count |-> c.total_count + 1,
        countLog |-> Append(c.countLog, objectID)]
  ELSE c

\* counting logic that increments the total outside the crossing test
countOne_looseIncrement(c, objectID) ==
  IF /\ ~Get(c.t.counted, objectID)
     /\ Len(Get(c.t.centroid_history, objectID)) >= 2
  THEN [t |-> IF crossed(Get(c.t.centroid_history, objectID))
              THEN [c.t EXCEPT !.counted = Put(c.t.counted, objectID, TRUE)]
              ELSE c.t,
        total_count |-> c.total_count + 1,
        countLog |-> Append(c.countLog, objectID)]
  ELSE c

\* the counting logic for one object of the snapshot, main lines 180-188
countOne(c, objectID) ==
  IF /\ ~Get(c.t.counted, objectID)
     /\ crossed(Get(c.t.centroid_history, objectID))
  THEN [t |-> [c.t EXCEPT !.counted = Put(c.t.counted, objectID, TRUE)],
        total_count |-> c.total_count + 1,
        countLog |-> Append(c.countLog, objectID)]
  ELSE c

\* for objectID, centroid in objects.items(), main lines 170-188
RECURSIVE countAll(_, _)
countAll(c, ids) ==
  IF ids = <<>> THEN c ELSE countAll(countOne(c, Head(ids)), Tail(ids))

(* ------------------------------ main loop ------------------------------ *)
Configs ==
  {NewTracker(k, d, h) : k \in 0..MaxMaxDisappeared, d \in 0..MaxMaxDistance,
                         h \in 0..MaxHistoryLen}

Init ==
  /\ tracker \in Configs
  /\ total_count = 0
  /\ rects = <<>>
  /\ pc = "read"
  /\ frames = 0
  /\ used = NoMatch
  /\ countLog = <<>>
  /\ trail = <<>>
  /\ missed = <<>>
  /\ everCounted = {}

\* the positions every live object has taken, extended by the update's result
nextTrail(r) ==
  LET matched == {r.matches[i][1] : i \in 1..Len(r.matches)}
  IN [id \in KeySet(r.t.objects) |->
        IF id \notin DOMAIN trail THEN <<Get(r.t.objects, id)>>
        ELSE IF id \in matched THEN Append(trail[id], Get(r.t.objects, id))
        ELSE trail[id]]

\* the number of consecutive updates that left each live object unmatched
nextMissed(r) ==
  LET matched == {r.matches[i][1] : i \in 1..Len(r.matches)}
  IN [id \in KeySet(r.t.objects) |->
        IF id \notin DOMAIN missed \/ id \in matched THEN 0 ELSE missed[id] + 1]

\* one frame is read, its boxes are extracted and the tracker is updated,
\* main lines 132-164
Update ==
  /\ pc = "read"
  /\ frames < MaxFrames
  /\ \E rs \in RectLists :
       \E r \in {update(tracker, rs)} :
          /\ rects' = rs
          /\ tracker' = r.t
          /\ used' = [usedRows |-> r.usedRows, usedCols |-> r.usedCols,
                      matches |-> r.matches]
          /\ trail' = nextTrail(r)
          /\ missed' = nextMissed(r)
  /\ frames' = frames + 1
  /\ pc' = "count"
  /\ UNCHANGED <<total_count, countLog, everCounted>>

\* the identifiers whose counted flag is set
flagged(t) == {id \in KeySet(t.counted) : Get(t.counted, id)}

\* the counting pass over the snapshot the update returned, main lines 170-188
Count ==
  /\ pc = "count"
  /\ \E c \in {countAll([t |-> tracker, total_count |-> total_count,
                         countLog |-> countLog], Keys(tracker.objects))} :
        /\ tracker' = c.t
        /\ total_count' = c.total_count
        /\ countLog' = c.countLog
        /\ everCounted' = flagged(c.t) \cup everCounted
  /\ pc' = "read"
  /\ UNCHANGED <<rects, frames, used, trail, missed>>

\* the loop: when the video ends or ESC is pressed (main lines 133-134 and
\* 198-200) no variable of this module changes, which is a stuttering step
Next == Update \/ Count

Spec == Init /\ [][Next]_vars

(* ------------------------------ properties ----------------------------- *)
Live == KeySet(tracker.objects)

Matched == {used.matches[i][1] : i \in 1..Len(used.matches)}

\* a step of the update, and a step of the counting pass
UpdateStep == pc = "read" /\ pc' = "count"

CountStep == pc = "count" /\ pc' = "read"

StrictlyIncreasing(seq) == \A i, j \in 1..Len(seq) : i < j => seq[i] < seq[j]

\* the live identifiers, in registration order, increase strictly and were issued
C1_IdsLive ==
  /\ StrictlyIncreasing(Keys(tracker.objects))
  /\ \A id \in Live : 0 <= id /\ id < tracker.nextObjectID

\* a step registers exactly the identifiers from the old nextObjectID up to the
\* new one, which no earlier object can have had
C1_IdsIssued ==
  /\ tracker'.nextObjectID >= tracker.nextObjectID
  /\ KeySet(tracker'.objects) \ Live =
       tracker.nextObjectID .. (tracker'.nextObjectID - 1)

\* C1: live objects, in registration order, carry strictly increasing (hence
\* distinct) identifiers, all of them already issued; an update issues only
\* identifiers that no earlier object ever had, one after the other.
C1_IdentifierMonotonicity == []C1_IdsLive /\ [][C1_IdsIssued]_vars

\* C1 witness: identifier 0 was deregistered, and two later objects are live
C1_Witness ==
  /\ 0 \notin Live
  /\ Cardinality(Live) = 2
  /\ tracker.nextObjectID >= 3

\* no identifier occurs twice in the log of the increments of total_count
C2_OncePerId == \A i, j \in 1..Len(countLog) : i # j => countLog[i] # countLog[j]

\* an object live before and after a step does not lose its counted flag
C2_CountedSticky ==
  \A id \in Live \cap KeySet(tracker'.objects) :
     Get(tracker.counted, id) => Get(tracker'.counted, id)

\* C2: the total is incremented at most once for an identifier, and a live
\* object's counted flag never goes from true back to false.
C2_SingleCount == []C2_OncePerId /\ [][C2_CountedSticky]_vars

\* C2 witness: the counting pass has just run over a counted object whose last
\* two samples satisfy the crossing condition a second time
C2_Witness ==
  /\ pc = "read"
  /\ \E id \in Live :
       /\ Get(tracker.counted, id)
       /\ crossed(Get(tracker.centroid_history, id))
       /\ \E i \in 2..(Len(trail[id]) - 2) :
            trail[id][i - 1][2] < line_y /\ trail[id][i][2] >= line_y

\* a live object missed at most maxDisappeared updates in a row
C3_Bounded ==
  \A id \in Live :
     /\ missed[id] <= tracker.maxDisappeared
     /\ Get(tracker.disappeared, id) <= tracker.maxDisappeared

\* an update deregisters exactly the objects it leaves unmatched for the
\* (maxDisappeared + 1)-th time in a row
C3_Evicts ==
  UpdateStep =>
    \A id \in Live :
       LET unmatchedNow == id \notin {used'.matches[i][1] : i \in 1..Len(used'.matches)}
       IN id \notin KeySet(tracker'.objects)
            <=> (unmatchedNow /\ missed[id] = tracker.maxDisappeared)

\* C3: a live object was unmatched for at most maxDisappeared consecutive
\* updates and its disappeared count is at most maxDisappeared; an update that
\* leaves an object unmatched deregisters it exactly if it was already
\* unmatched maxDisappeared times in a row, and no other object is deregistered.
C3_EvictionThreshold == []C3_Bounded /\ [][C3_Evicts]_vars

\* C3 witness: with maxDisappeared = 1 the object registered in the first frame
\* is gone after the third update, its second consecutive unmatched one
C3_Witness ==
  /\ tracker.maxDisappeared = 1
  /\ frames = 3
  /\ tracker.nextObjectID = 1
  /\ Live = {}

\* C3 second case: an object unmatched maxDisappeared >= 1 times is still live
C3_StillLive ==
  \E id \in Live : tracker.maxDisappeared >= 1 /\ missed[id] = tracker.maxDisappeared

\* the matches of one update respect maxDistance
C4_Gated ==
  UpdateStep =>
    /\ \A i \in 1..Len(used'.matches) :
         DistSq(Get(tracker.objects, used'.matches[i][1]),
                Centroid(rects'[used'.matches[i][2]]))
           <= tracker.maxDistance * tracker.maxDistance
    /\ (Len(tracker.objects) = 1 /\ Len(rects') = 1) =>
         (Len(used'.matches) = 1
            <=> DistSq(tracker.objects[1][2], Centroid(rects'[1]))
                  <= tracker.maxDistance * tracker.maxDistance)

\* C4: every match an update commits joins an object and a detection whose
\* centroids are at most maxDistance apart; a lone object and a lone detection
\* are matched exactly if their distance is at most maxDistance.
C4_DistanceGating == [][C4_Gated]_vars

\* C4 witness: a lone object was matched to a lone detection at a distance of
\* exactly maxDistance >= 1
C4_Witness ==
  /\ pc = "count"
  /\ tracker.maxDistance >= 1
  /\ Len(rects) = 1
  /\ Len(used.matches) = 1
  /\ \E id \in Live :
       /\ Len(trail[id]) >= 2
       /\ DistSq(trail[id][Len(trail[id]) - 1], trail[id][Len(trail[id])])
            = tracker.maxDistance * tracker.maxDistance

Max(a, b) == IF a >= b THEN a ELSE b

Min(a, b) == IF a <= b THEN a ELSE b

\* the last n elements of a sequence
LastN(seq, n) == SubSeq(seq, Len(seq) - n + 1, Len(seq))

\* C5 as stated: for any configuration, every live object's history holds at
\* least one entry and at most historyLength entries.
C5_AsStated ==
  \A id \in Live :
     /\ Len(Get(tracker.centroid_history, id)) >= 1
     /\ Len(Get(tracker.centroid_history, id)) <= tracker.history_len

\* C5 amended: every live object's history holds at least one entry, and at
\* most historyLength entries when historyLength >= 1 (exactly one entry when
\* historyLength is 0).
C5_HistoryBound ==
  \A id \in Live :
     /\ Len(Get(tracker.centroid_history, id)) >= 1
     /\ Len(Get(tracker.centroid_history, id)) <= Max(tracker.history_len, 1)

\* C5 witness: an object that has taken more positions than historyLength >= 1
C5_Witness ==
  \E id \in Live :
     /\ tracker.history_len >= 1
     /\ Len(trail[id]) > tracker.history_len
     /\ Len(Get(tracker.centroid_history, id)) = tracker.history_len

\* C6 as stated: the history is the most recent min(n, historyLength) of the n
\* centroids the object has taken, oldest first.
C6_AsStated ==
  \A id \in Live :
     Get(tracker.centroid_history, id)
       = LastN(trail[id], Min(Len(trail[id]), tracker.history_len))

\* C6 amended: the history is the most recent min(n, historyLength) of the n
\* centroids the object has taken, oldest first, when historyLength >= 1 (with
\* historyLength 0 it is the most recent centroid alone).
C6_MostRecent ==
  \A id \in Live :
     Get(tracker.centroid_history, id)
       = LastN(trail[id], Min(Len(trail[id]), Max(tracker.history_len, 1)))

\* C6 witness: the oldest of three different positions was evicted and the two
\* most recent ones are kept
C6_Witness ==
  \E id \in Live :
     /\ tracker.history_len = 2
     /\ Len(trail[id]) >= 3
     /\ trail[id][Len(trail[id]) - 2] # trail[id][Len(trail[id]) - 1]
     /\ trail[id][Len(trail[id]) - 1] # trail[id][Len(trail[id])]
     /\ trail[id][Len(trail[id]) - 2] # trail[id][Len(trail[id])]

\* the crossing condition of the claim, for a live object not yet counted
C7_Fires(id) ==
  LET hist == Get(tracker.centroid_history, id)
  IN /\ ~Get(tracker.counted, id)
     /\ Len(hist) >= 2
     /\ hist[Len(hist) - 1][2] < line_y
     /\ line_y <= hist[Len(hist)][2]

\* the effect of one counting pass on the flags and the total
C7_Pass ==
  CountStep =>
    /\ KeySet(tracker'.counted) = KeySet(tracker.counted)
    /\ \A id \in Live :
         Get(tracker'.counted, id) <=> (Get(tracker.counted, id) \/ C7_Fires(id))
    /\ total_count' = total_count + Cardinality({id \in Live : C7_Fires(id)})

\* C7: the counting pass marks a live, not yet counted object exactly if its
\* history has two samples or more, the second-to-last above the line and the
\* last on or below it; the total grows by the number of objects so marked, and
\* a counted object stays counted.
C7_CrossingRule == [][C7_Pass]_vars

\* C7 witness: an object was counted on a step from above the line onto it,
\* while another object that went from the line to below it was not
C7_Witness ==
  /\ pc = "read"
  /\ total_count = 1
  /\ \E id, other \in Live :
       /\ Get(tracker.counted, id)
       /\ ~Get(tracker.counted, other)
       /\ Len(trail[id]) = 2 /\ Len(trail[other]) = 2
       /\ trail[id][1][2] < line_y /\ trail[id][2][2] = line_y
       /\ trail[other][1][2] = line_y /\ trail[other][2][2] > line_y

\* C8: the matches an update commits are one-to-one: no object and no
\* detection occurs in two of them.
C8_OneToOne ==
  /\ \A i, j \in 1..Len(used.matches) :
       i # j => /\ used.matches[i][1] # used.matches[j][1]
                /\ used.matches[i][2] # used.matches[j][2]
  /\ Cardinality(used.usedRows) = Len(used.matches)
  /\ Cardinality(used.usedCols) = Len(used.matches)
  /\ \A i \in 1..Len(used.matches) : used.matches[i][2] \in 1..Len(rects)

\* C8 witness: two equal detections, one of them matched; two equidistant
\* detections competing for one object
C8_Witness ==
  /\ pc = "count"
  /\ Len(rects) = 2
  /\ rects[1] = rects[2]
  /\ Len(used.matches) = 1
  /\ Cardinality(Live) = 2

C8_WitnessEquidistant ==
  /\ pc = "count"
  /\ Len(rects) = 2
  /\ rects[1] # rects[2]
  /\ Len(used.matches) = 1
  /\ \E id \in Live :
       /\ Len(trail[id]) >= 2
       /\ DistSq(trail[id][Len(trail[id]) - 1], Centroid(rects[1]))
            = DistSq(trail[id][Len(trail[id]) - 1], Centroid(rects[2]))
       /\ Matched = {id}

\* the effect of an update without detections
C9_Empty ==
  (UpdateStep /\ rects' = <<>>) =>
    /\ KeySet(tracker'.objects) =
         {id \in Live : Get(tracker.disappeared, id) + 1 <= tracker.maxDisappeared}
    /\ \A id \in KeySet(tracker'.objects) :
         /\ Get(tracker'.disappeared, id) = Get(tracker.disappeared, id) + 1
         /\ Get(tracker'.objects, id) = Get(tracker.objects, id)
    /\ tracker'.nextObjectID = tracker.nextObjectID

\* C9: an update without detections adds one to the disappeared count of every
\* live object, deregisters exactly those whose count then exceeds
\* maxDisappeared, registers nothing and leaves the next identifier alone.
C9_EmptyUpdate == [][C9_Empty]_vars

\* C9 witness: after an update without detections one object is live with a
\* disappeared count of 1 and another one has been deregistered
C9_Witness ==
  /\ pc = "count"
  /\ rects = <<>>
  /\ Cardinality(Live) = 1
  /\ tracker.nextObjectID = 2
  /\ \E id \in Live : Get(tracker.disappeared, id) = 1

\* the effect of an update with detections on a tracker without objects
C10_Registers ==
  (UpdateStep /\ rects' # <<>> /\ Live = {}) =>
    /\ Keys(tracker'.objects) =
         [i \in 1..Len(rects') |-> tracker.nextObjectID + i - 1]
    /\ tracker'.nextObjectID = tracker.nextObjectID + Len(rects')
    /\ \A i \in 1..Len(rects') :
         LET id == tracker.nextObjectID + i - 1
             c == <<(rects'[i][1] + rects'[i][3]) \div 2,
                    (rects'[i][2] + rects'[i][4]) \div 2>>
         IN /\ Get(tracker'.objects, id) = c
            /\ Get(tracker'.boxes, id) = rects'[i]
            /\ Get(tracker'.disappeared, id) = 0
            /\ Get(tracker'.counted, id) = FALSE
            /\ Get(tracker'.centroid_history, id) = <<c>>

\* C10: an update with n >= 1 detections and no live object registers the i-th
\* detection under the i-th next identifier, with its box, its centroid, a
\* disappeared count of 0, counted false and a history of that centroid alone.
C10_RegisterAll == [][C10_Registers]_vars

\* C10 witness: the first frame's two different detections, met by a tracker
\* without objects, have become objects 0 and 1
C10_Witness ==
  /\ pc = "count"
  /\ frames = 1
  /\ Len(rects) = 2
  /\ rects[1] # rects[2]
  /\ Keys(tracker.objects) = <<0, 1>>

\* C11: the five mappings of the tracker (centroids, boxes, disappeared,
\* counted, history) hold the same identifiers in the same order, each once, so
\* the snapshot's two mappings agree, a deregistered identifier is in none of
\* them, and the counting pass finds every identifier it looks up.
C11_SameKeys ==
  /\ Keys(tracker.boxes) = Keys(tracker.objects)
  /\ Keys(tracker.disappeared) = Keys(tracker.objects)
  /\ Keys(tracker.counted) = Keys(tracker.objects)
  /\ Keys(tracker.centroid_history) = Keys(tracker.objects)
  /\ Cardinality(KeySet(tracker.objects)) = Len(tracker.objects)

\* C11 witness: the counting pass is about to run over one live object after
\* two others were deregistered
C11_Witness ==
  /\ pc = "count"
  /\ tracker.nextObjectID = 3
  /\ Cardinality(KeySet(tracker.counted)) = 1
  /\ Cardinality(KeySet(tracker.boxes)) = 1

\* the row an object had in the pre-state's objectIDs
RowOf(id) == CHOOSE i \in 1..Len(tracker.objects) : tracker.objects[i][1] = id

\* the squared distance of the pre-state's row i and the new frame's column j
PairDist(i, j) == DistSq(tracker.objects[i][2], Centroid(rects'[j]))

\* <<dist, row, col>> order: by distance, then by row, then by column
KeyBefore(i1, j1, i2, j2) ==
  \/ PairDist(i1, j1) < PairDist(i2, j2)
  \/ /\ PairDist(i1, j1) = PairDist(i2, j2)
     /\ (i1 < i2 \/ (i1 = i2 /\ j1 < j2))

\* the (row, col) pairs an update committed, in commit order
NewMatches == [k \in 1..Len(used'.matches) |->
                 <<RowOf(used'.matches[k][1]), used'.matches[k][2]>>]

\* an update that runs the greedy assignment
MatchStep == UpdateStep /\ Live # {} /\ rects' # <<>>

\* the committed pairs are exactly the pairs within maxDistance that no
\* committed pair of their row or column precedes, committed in that order
C13_Greedy ==
  MatchStep =>
    LET M == {NewMatches[k] : k \in 1..Len(NewMatches)}
        within(i, j) == PairDist(i, j) <= tracker.maxDistance * tracker.maxDistance
    IN /\ \A k1, k2 \in 1..Len(NewMatches) :
            k1 < k2 => KeyBefore(NewMatches[k1][1], NewMatches[k1][2],
                                 NewMatches[k2][1], NewMatches[k2][2])
       /\ \A i \in 1..Len(tracker.objects), j \in 1..Len(rects') :
            <<i, j>> \in M <=>
              /\ within(i, j)
              /\ \A m \in M : (m # <<i, j>> /\ (m[1] = i \/ m[2] = j))
                                => KeyBefore(i, j, m[1], m[2])
       /\ (\E i \in 1..Len(tracker.objects), j \in 1..Len(rects') : within(i, j))
            => /\ Len(NewMatches) >= 1
               /\ \A i \in 1..Len(tracker.objects), j \in 1..Len(rects') :
                    PairDist(NewMatches[1][1], NewMatches[1][2]) <= PairDist(i, j)

\* C13: pairs are taken by ascending distance and, at equal distance, by lower
\* row and then lower column: the first match is a closest pair of the matrix
\* when one is within maxDistance, and of two equidistant pairs that share an
\* object or a detection the earlier one in row-major order is committed.
C13_AscendingRowMajor == [][C13_Greedy]_vars

\* C13 witness: two different detections at the same distance from the only
\* object, and the first of them was matched
C13_Witness ==
  /\ pc = "count"
  /\ Cardinality(Live) = 2
  /\ Len(rects) = 2
  /\ Centroid(rects[1]) # Centroid(rects[2])
  /\ used.matches = <<<<tracker.objects[1][1], 1>>>>
  /\ Len(trail[tracker.objects[1][1]]) = 2
  /\ DistSq(trail[tracker.objects[1][1]][1], Centroid(rects[1]))
       = DistSq(trail[tracker.objects[1][1]][1], Centroid(rects[2]))
  /\ DistSq(trail[tracker.objects[1][1]][1], Centroid(rects[1])) > 0

\* an update's unmatched detections become the new objects, in input order, and
\* are farther than maxDistance from every object the update left unmatched
C14_Maximal ==
  MatchStep =>
    LET freeCols == {j \in 1..Len(rects') : j \notin used'.usedCols}
        freeRows == {i \in 1..Len(tracker.objects) : i \notin used'.usedRows}
        rank(j) == Cardinality({j2 \in freeCols : j2 < j})
    IN /\ tracker'.nextObjectID = tracker.nextObjectID + Cardinality(freeCols)
       /\ \A j \in freeCols :
            /\ tracker.nextObjectID + rank(j) \in KeySet(tracker'.objects)
            /\ Get(tracker'.boxes, tracker.nextObjectID + rank(j)) = rects'[j]
            /\ \A i \in freeRows :
                 PairDist(i, j) > tracker.maxDistance * tracker.maxDistance

\* C14: in an update with a live object and a detection, every detection left
\* unmatched is registered as a new object, and it is farther than maxDistance
\* from every object left unmatched in that update.
C14_MaximalAssignment == [][C14_Maximal]_vars

\* C14 witness: a detection was registered as a new object while an older
\* object, too far from it, stayed unmatched and live
C14_Witness ==
  /\ pc = "count"
  /\ Len(rects) = 1
  /\ used.matches = <<>>
  /\ Cardinality(Live) = 2
  /\ \E id \in Live : missed[id] = 1

\* the effect of an update on the objects it matched
C15_Matched ==
  MatchStep =>
    /\ tracker'.nextObjectID - tracker.nextObjectID
         = Len(rects') - Len(used'.matches)
    /\ \A k \in 1..Len(used'.matches) :
         LET id == used'.matches[k][1]
             rect == rects'[used'.matches[k][2]]
             c == <<(rect[1] + rect[3]) \div 2, (rect[2] + rect[4]) \div 2>>
             h == Get(tracker.centroid_history, id)
         IN /\ id \in Live
            /\ id \in KeySet(tracker'.objects)
            /\ Get(tracker'.objects, id) = c
            /\ Get(tracker'.boxes, id) = rect
            /\ Get(tracker'.disappeared, id) = 0
            /\ Get(tracker'.counted, id) = Get(tracker.counted, id)
            /\ \/ Get(tracker'.centroid_history, id) = Append(h, c)
               \/ Get(tracker'.centroid_history, id) = Tail(Append(h, c))

\* C15: a matched object takes the detection's centroid and box, its
\* disappeared count becomes 0, the new centroid is appended to its history
\* (the oldest entry may leave), its identifier and counted flag stay, and only
\* the detections that were not matched are registered.
C15_MatchEffect == [][C15_Matched]_vars

\* C15 witness: an object that was already counted has been matched again
C15_Witness ==
  /\ pc = "count"
  /\ \E id \in Matched :
       /\ Get(tracker.counted, id)
       /\ Get(tracker.disappeared, id) = 0
       /\ Len(trail[id]) >= 3

\* the effect of a matching update on the objects it left unmatched
C16_Unmatched ==
  MatchStep =>
    \A id \in Live :
       id \notin {used'.matches[k][1] : k \in 1..Len(used'.matches)} =>
         LET n == Get(tracker.disappeared, id) + 1
         IN /\ id \notin KeySet(tracker'.objects) <=> n > tracker.maxDisappeared
            /\ id \in KeySet(tracker'.objects) =>
                 /\ Get(tracker'.disappeared, id) = n
                 /\ Get(tracker'.objects, id) = Get(tracker.objects, id)
                 /\ Get(tracker'.boxes, id) = Get(tracker.boxes, id)
                 /\ Get(tracker'.centroid_history, id)
                      = Get(tracker.centroid_history, id)
                 /\ Get(tracker'.counted, id) = Get(tracker.counted, id)

\* C16: an update with detections adds one to the disappeared count of every
\* object it does not match, deregisters it exactly if that count exceeds
\* maxDisappeared, and otherwise leaves its centroid, box, history and counted
\* flag alone.
C16_UnmatchedEffect == [][C16_Unmatched]_vars

\* C16 witness: a counted object was left unmatched by an update with
\* detections and is still live, counted, with a disappeared count of 1
C16_Witness ==
  /\ pc = "count"
  /\ rects # <<>>
  /\ \E id \in Live \ Matched :
       /\ Get(tracker.counted, id)
       /\ Get(tracker.disappeared, id) = 1
       /\ missed[id] = 1

\* what a counting pass leaves alone
C17_Frame ==
  CountStep =>
    /\ tracker'.objects = tracker.objects
    /\ tracker'.boxes = tracker.boxes
    /\ tracker'.disappeared = tracker.disappeared
    /\ tracker'.centroid_history = tracker.centroid_history
    /\ tracker'.nextObjectID = tracker.nextObjectID
    /\ Keys(tracker'.counted) = Keys(tracker.counted)
    /\ tracker'.maxDisappeared = tracker.maxDisappeared
    /\ tracker'.maxDistance = tracker.maxDistance
    /\ tracker'.history_len = tracker.history_len

\* C17: the counting pass leaves the live identifiers, every centroid, box,
\* disappeared count and history and the next identifier as they were; only
\* counted flags and the total may change.
C17_CountFrame == [][C17_Frame]_vars

\* C17 witness: one counting pass has counted two objects at once
C17_Witness ==
  /\ pc = "read"
  /\ frames = 2
  /\ total_count = 2
  /\ \A id \in Live : Get(tracker.counted, id)

\* C18: after an update with n >= 1 detections exactly n live objects have a
\* disappeared count of 0, and they pair off one-to-one with the detections,
\* each holding its detection's box and centroid.
C18_OnePerDetection ==
  (pc = "count" /\ rects # <<>>) =>
    LET Z == {id \in Live : Get(tracker.disappeared, id) = 0}
    IN /\ Cardinality(Z) = Len(rects)
       /\ \E f \in [1..Len(rects) -> Z] :
            /\ \A j1, j2 \in 1..Len(rects) : j1 # j2 => f[j1] # f[j2]
            /\ \A j \in 1..Len(rects) :
                 /\ Get(tracker.boxes, f[j]) = rects[j]
                 /\ Get(tracker.objects, f[j])
                      = <<(rects[j][1] + rects[j][3]) \div 2,
                          (rects[j][2] + rects[j][4]) \div 2>>

\* C18 witness: of two detections one was matched and one registered, while
\* a third object stayed unmatched
C18_Witness ==
  /\ pc = "count"
  /\ Len(rects) = 2
  /\ Len(used.matches) = 1
  /\ Cardinality(Live) = 3

\* C19: with historyLength >= 2, after the counting pass of a frame a live
\* object is counted exactly if two consecutive positions of all those it has
\* taken since registration go from above the line to on or below it.
C19_CountedIffCrossed ==
  (pc = "read" /\ tracker.history_len >= 2) =>
    \A id \in Live :
       Get(tracker.counted, id)
         <=> \E i \in 1..(Len(trail[id]) - 1) :
               trail[id][i][2] < line_y /\ line_y <= trail[id][i + 1][2]

\* C19 witness: object 0, registered in the second frame, unmatched in the
\* third and matched in the fourth, was counted for the step between its two
\* positions
C19_Witness ==
  /\ pc = "read"
  /\ frames = 4
  /\ tracker.history_len >= 2
  /\ tracker.maxDisappeared = 1
  /\ 0 \in Live
  /\ Len(trail[0]) = 2
  /\ Get(tracker.disappeared, 0) = 0
  /\ Get(tracker.counted, 0)

\* the total is the number of identifiers ever flagged, at most those issued
C20_Total ==
  /\ total_count = Cardinality(everCounted)
  /\ total_count <= tracker.nextObjectID

\* no step lowers the total, and an update (deregistrations included) keeps it
C20_Steps ==
  /\ total_count' >= total_count
  /\ UpdateStep => total_count' = total_count

\* C20: the total never decreases, equals the number of distinct identifiers
\* ever marked counted (live or deregistered), never exceeds the number of
\* identifiers issued, and is not changed by deregistering a counted object.
C20_TotalIsCountedIds == []C20_Total /\ [][C20_Steps]_vars

\* C20 witness: the only object ever registered was counted and then
\* deregistered, and the total is still 1
C20_Witness ==
  /\ total_count = 1
  /\ everCounted = {0}
  /\ tracker.nextObjectID = 1
  /\ Live = {}

====
